---- MODULE Spec2Model ----
(***************************************************************************)
(* The search overlay of the OS.js client (src/search.js): the hyperapp    *)
(* state of the overlay, its wired actions, the handlers of its view, the  *)
(* public show()/hide() methods and the promise chain of a VFS search.     *)
(* The VFS facade (src/vfs/methods.js): the path normalizer, the methods   *)
(* that forward to a backend adapter, and the download with its fallback.  *)
(***************************************************************************)
EXTENDS Integers, Sequences, FiniteSets, TLC

VARIABLES
  state,     \* the hyperapp global state of searchUI
  view,      \* what the last render was given and the handlers close over
  focused,   \* the input of the overlay has the focus
  requests,  \* the promise of every vfs.search() call so far, in issue order
  latest,    \* the call whose continuation ran last, 0 when a toggle came after it
  calls,     \* the calls the last step made to its collaborators, in order
  facade,    \* the call of a VFS facade method (vfs/methods.js) under way or last made
  resources  \* the object URL and anchor of every download that fell back to a read

searchVars == <<state, view, focused, requests, latest>>
vfsVars == <<facade, resources>>

vars == <<state, view, focused, requests, latest, calls, facade, resources>>

----------------------------------------------------------------------------
(* Bounds of the model *)

MaxResults == 2
MaxSearches == 2
MaxQuery == 2
MaxCalls == 2

----------------------------------------------------------------------------
(* JavaScript values *)

Undefined == "undefined"
Null == "null"
\* The IEEE NaN, kept apart from every index the arithmetic below can produce
\* (an index is never below -1).
NaN == -2

Truthy(v) == v \notin {Undefined, Null, ""}

\* a || b
Or(a, b) == IF Truthy(a) THEN a ELSE b

\* a + b, a - b, a % b, a <= b, a >= b, a === b on numbers
JsAdd(a, b) == IF a = NaN \/ b = NaN THEN NaN ELSE a + b
JsSub(a, b) == IF a = NaN \/ b = NaN THEN NaN ELSE a - b
JsRem(a, b) ==
  IF a = NaN \/ b = NaN \/ b = 0 THEN NaN
  ELSE IF a >= 0 THEN a % b ELSE 0 - ((0 - a) % b)
JsLe(a, b) == a # NaN /\ b # NaN /\ a <= b
JsGe(a, b) == a # NaN /\ b # NaN /\ a >= b
JsEq(a, b) == a # NaN /\ b # NaN /\ a = b

\* results[index] is an entry (not undefined); indices start at 0
HasEntry(results, index) == index # NaN /\ index >= 0 /\ index < Len(results)
Entry(results, index) == results[index + 1]

----------------------------------------------------------------------------
(* Inputs *)

\* what the user can type into the input
Queries == {<<>>, <<"a">>}

\* every text of at most MaxQuery characters, with and without wildcards
QueryChars == {"a", "*"}
TypedQueries == UNION {[1 .. n -> QueryChars] : n \in 0 .. MaxQuery}

\* the files of the backend, in the order it lists them
FileRecord(n) == [path |-> "osjs:/file" \o ToString(n), mime |-> "text/plain"]

RECURSIVE Listing(_)
Listing(S) ==
  IF S = {} THEN <<>>
  ELSE LET n == CHOOSE m \in S : \A k \in S : m <= k
       IN <<FileRecord(n)>> \o Listing(S \ {n})

\* what the backend can answer a search with: the files that match, in order
ResultSets == {Listing(S) : S \in SUBSET (1 .. MaxResults)}

\* what the backend can reject a search with
Errors == {"EIO"}

root == "osjs:/"

----------------------------------------------------------------------------
(* The wired actions that return a partial state *)

resetIndex == [index |-> -1]

\* setNextIndex without the wraparound
setNextIndexNoWrap(s) == [index |-> JsAdd(s.index, 1)]

\* setNextIndex stopping at the last entry
setNextIndexStops(s) ==
  [index |-> IF JsGe(JsAdd(s.index, 1), Len(s.results))
             THEN s.index
             ELSE JsAdd(s.index, 1)]

setNextIndex(s) == [index |-> JsRem(JsAdd(s.index, 1), Len(s.results))]

\* setPreviousIndex wrapping on index < 0 only
setPreviousIndexBelowZero(s) ==
  [index |-> IF JsLe(s.index, -1) THEN Len(s.results) - 1 ELSE JsSub(s.index, 1)]

setPreviousIndex(s) ==
  [index |-> IF JsLe(s.index, 0) THEN Len(s.results) - 1 ELSE JsSub(s.index, 1)]

\* setError without the reset of index
setErrorKeepsIndex(error) == [error |-> error, status |-> Undefined]

setError(error) == [error |-> error, status |-> Undefined, index |-> -1]

\* setResults without the reset of index
setResultsKeepsIndex(results) ==
  [results |-> results,
   status |-> "Showing " \o ToString(Len(results)) \o " results"]

setResults(results) ==
  [results |-> results,
   index |-> -1,
   status |-> "Showing " \o ToString(Len(results)) \o " results"]

\* setQuery clearing the selection as it sets the query
setQueryClearsSelection(query) == [query |-> query, index |-> -1]

setQuery(query) == [query |-> query]

\* toggle without the reset of error
toggleKeepsError(args, s) ==
  [query |-> <<>>,
   results |-> <<>>,
   index |-> -1,
   status |-> Undefined,
   visible |-> IF Len(args) > 0 THEN args[1] ELSE ~s.visible]

\* toggle with visible coerced (!!visible) instead of flipped when omitted
toggleCoerces(args, s) ==
  [query |-> <<>>,
   results |-> <<>>,
   index |-> -1,
   status |-> Undefined,
   error |-> Null,
   visible |-> IF Len(args) > 0 THEN args[1] ELSE FALSE]

\* args is the argument list of the call: <<>> (visible omitted, so undefined),
\* <<TRUE>> or <<FALSE>>; typeof visible === 'boolean' exactly when one is given
toggle(args, s) ==
  [query |-> <<>>,
   results |-> <<>>,
   index |-> -1,
   status |-> Undefined,
   error |-> Null,
   visible |-> IF Len(args) > 0 THEN args[1] ELSE ~s.visible]

\* hyperapp merges the partial state an action returns into the global state
Merge(s, partial) ==
  [k \in DOMAIN s |-> IF k \in DOMAIN partial THEN partial[k] ELSE s[k]]

InitialState ==
  [query |-> <<>>,
   index |-> -1,
   status |-> Undefined,
   error |-> Null,
   visible |-> FALSE,
   results |-> <<>>]

\* the text of the osjs-search-message element
Message(s) == Or(s.error, s.status)

\* what the view functions read of the state for the handlers they create
Rendered(s) ==
  [visible |-> s.visible, query |-> s.query, index |-> s.index, results |-> s.results]

----------------------------------------------------------------------------
(* The pattern the Enter key searches for *)

\* the first replace appending '*' whatever the query ends with
ReplaceTrailingStarAppends(q) == q \o <<"*">>

\* q.replace(/\*?$/, '*'): a trailing '*' is replaced by '*', else '*' is appended
ReplaceTrailingStar(q) ==
  IF Len(q) > 0 /\ q[Len(q)] = "*"
  THEN SubSeq(q, 1, Len(q) - 1) \o <<"*">>
  ELSE q \o <<"*">>

\* q.replace(/^\*?/, '*'): a leading '*' is replaced by '*', else '*' is prepended
ReplaceLeadingStar(q) ==
  IF Len(q) > 0 /\ q[1] = "*"
  THEN <<"*">> \o SubSeq(q, 2, Len(q))
  ELSE <<"*">> \o q

Pattern(query) == ReplaceLeadingStar(ReplaceTrailingStar(query))

----------------------------------------------------------------------------
(* Calls to the collaborators *)

\* this.core.make('osjs/vfs').search({path: root}, pattern)
VfsSearch(pattern) == [target |-> "vfs.search", path |-> root, arg |-> pattern]

\* this.core.open(iter)
CoreOpen(iter) == [target |-> "core.open", path |-> iter.path, arg |-> iter]

----------------------------------------------------------------------------
(* The promise of one vfs.search() call *)

\* phase: "pending", then "fulfilled" or "rejected" as the continuation
\* registered for the outcome runs;
\* session: how a pending call stands to the overlay session it was issued in:
\* "retry" when state.error was set at the call, "clean" when it was not, and
\* "expired" once a toggle has been applied since the call or it has settled.
NewRequest(s) ==
  [phase |-> "pending",
   session |-> IF s.error # Null THEN "retry" ELSE "clean"]

Settled(phase) == [phase |-> phase, session |-> "expired"]

\* a toggle ends the overlay session every earlier call was issued in
Expire(reqs) == [i \in DOMAIN reqs |-> [reqs[i] EXCEPT !.session = "expired"]]

----------------------------------------------------------------------------
(* The wired actions, as steps *)

\* an action that returns a partial state
Dispatch(partial) ==
  /\ state' = Merge(state, partial)
  /\ calls' = <<>>
  /\ UNCHANGED <<requests, latest>>

Toggle(args) ==
  /\ calls' = <<>>
  /\ latest' = 0
  /\ state' = Merge(state, toggle(args, state))
  /\ requests' = Expire(requests)

\* Search.search(pattern) and the search action: the call is issued, the
\* continuations are registered, nothing is returned to hyperapp
search(query) ==
  /\ Len(requests) < MaxSearches
  /\ calls' = <<VfsSearch(query)>>
  /\ requests' = Append(requests, NewRequest(state))
  /\ UNCHANGED <<state, latest>>

\* open without the toggle(false) that follows the request
openLeavesShown(index) ==
  /\ calls' = IF HasEntry(state.results, index)
              THEN <<CoreOpen(Entry(state.results, index))>>
              ELSE <<>>
  /\ UNCHANGED <<state, requests, latest>>

open(index) ==
  /\ calls' = IF HasEntry(state.results, index)
              THEN <<CoreOpen(Entry(state.results, index))>>
              ELSE <<>>
  /\ state' = Merge(state, toggle(<<FALSE>>, state))
  /\ requests' = Expire(requests)
  /\ latest' = 0

hide == Toggle(<<FALSE>>)

show == Toggle(<<TRUE>>)

----------------------------------------------------------------------------
(* Key codes *)

KeyUp == 38
KeyDown == 40
KeyEscape == 27
KeyEnter == 13
KeyF3 == 114

----------------------------------------------------------------------------
(* Events *)

\* Desktop.init's keydown listener on the root element
KeydownRoot(keyCode) ==
  /\ keyCode = KeyF3
  /\ UNCHANGED <<view, focused>>
  /\ show
  /\ UNCHANGED vfsVars

\* the tray entry's click callback
TrayClick ==
  /\ UNCHANGED <<view, focused>>
  /\ show
  /\ UNCHANGED vfsVars

\* focus(): the timer show() sets, or the user clicking into the input; the
\* input takes the focus only while the rendered overlay is displayed
Focus ==
  /\ view.visible
  /\ ~focused
  /\ focused' = TRUE
  /\ calls' = <<>>
  /\ UNCHANGED <<state, view, requests, latest>>
  /\ UNCHANGED vfsVars

\* the input loses the focus
OnBlur ==
  /\ focused
  /\ focused' = FALSE
  /\ Toggle(<<FALSE>>)
  /\ UNCHANGED view
  /\ UNCHANGED vfsVars

\* the input and key events go to the input while it has the focus
OnInput(value) ==
  /\ focused
  /\ Dispatch(setQuery(value))
  /\ UNCHANGED <<view, focused>>
  /\ UNCHANGED vfsVars

\* onkeydown with Escape hiding the overlay whatever is selected
OnKeydownHidesAtOnce(keyCode) ==
  /\ focused
  /\ IF keyCode = KeyUp THEN Dispatch(setPreviousIndex(state))
     ELSE IF keyCode = KeyDown THEN Dispatch(setNextIndex(state))
     ELSE IF keyCode = KeyEscape THEN
       LET cleared == Merge(state, resetIndex)
       IN /\ state' = Merge(cleared, toggle(<<FALSE>>, cleared))
          /\ requests' = Expire(requests)
          /\ latest' = 0
          /\ calls' = <<>>
     ELSE /\ calls' = <<>>
          /\ UNCHANGED <<state, requests, latest>>
  /\ UNCHANGED <<view, focused>>
  /\ UNCHANGED vfsVars

OnKeydown(keyCode) ==
  /\ focused
  /\ IF keyCode = KeyUp THEN Dispatch(setPreviousIndex(state))
     ELSE IF keyCode = KeyDown THEN Dispatch(setNextIndex(state))
     ELSE IF keyCode = KeyEscape THEN
       LET cleared == Merge(state, resetIndex)
       IN IF JsEq(view.index, -1)
          THEN /\ state' = Merge(cleared, toggle(<<FALSE>>, cleared))
               /\ requests' = Expire(requests)
               /\ latest' = 0
               /\ calls' = <<>>
          ELSE /\ state' = cleared
               /\ calls' = <<>>
               /\ UNCHANGED <<requests, latest>>
     ELSE /\ calls' = <<>>
          /\ UNCHANGED <<state, requests, latest>>
  /\ UNCHANGED <<view, focused>>
  /\ UNCHANGED vfsVars

OnKeypress(keyCode) ==
  /\ focused
  /\ keyCode = KeyEnter
  /\ IF JsGe(view.index, 0)
     THEN open(view.index)
     ELSE search(Pattern(view.query))
  /\ UNCHANGED <<view, focused>>
  /\ UNCHANGED vfsVars

\* the click handler of the i-th rendered result; pressing the mouse button on
\* a result has taken the focus from the input before the click is delivered
OnClick(i) ==
  /\ view.visible
  /\ ~focused
  /\ i \in 0 .. Len(view.results) - 1
  /\ open(i)
  /\ UNCHANGED <<view, focused>>
  /\ UNCHANGED vfsVars

\* the continuation under a sequence guard: the response of a call is dropped
\* once a newer call has settled
ThenCallbackIfNewest(i, results) ==
  /\ i \in DOMAIN requests
  /\ requests[i].phase = "pending"
  /\ \A j \in DOMAIN requests : j > i => requests[j].phase = "pending"
  /\ state' = Merge(state, setResults(results))
  /\ requests' = [requests EXCEPT ![i] = Settled("fulfilled")]
  /\ latest' = i
  /\ calls' = <<>>
  /\ UNCHANGED <<view, focused>>
  /\ UNCHANGED vfsVars

\* the chain with both continuations run on a fulfilled promise
ThenCallbackAndCatch(i, results) ==
  /\ i \in DOMAIN requests
  /\ requests[i].phase = "pending"
  /\ state' = Merge(Merge(state, setResults(results)), setError("EIO"))
  /\ requests' = [requests EXCEPT ![i] = Settled("fulfilled")]
  /\ latest' = i
  /\ calls' = <<>>
  /\ UNCHANGED <<view, focused>>
  /\ UNCHANGED vfsVars

\* .then(results => actions.setResults(results)), run as the promise of call i
\* is fulfilled with results
ThenCallback(i, results) ==
  /\ i \in DOMAIN requests
  /\ requests[i].phase = "pending"
  /\ state' = Merge(state, setResults(results))
  /\ requests' = [requests EXCEPT ![i] = Settled("fulfilled")]
  /\ latest' = i
  /\ calls' = <<>>
  /\ UNCHANGED <<view, focused>>
  /\ UNCHANGED vfsVars

\* .catch(error => actions.setError(error)), run as the promise of call i is
\* rejected with error
CatchCallback(i, error) ==
  /\ i \in DOMAIN requests
  /\ requests[i].phase = "pending"
  /\ state' = Merge(state, setError(error))
  /\ requests' = [requests EXCEPT ![i] = Settled("rejected")]
  /\ latest' = i
  /\ calls' = <<>>
  /\ UNCHANGED <<view, focused>>
  /\ UNCHANGED vfsVars

\* the render hyperapp schedules after a state change; an input that is no
\* longer displayed has lost the focus
Render ==
  /\ view # Rendered(state)
  /\ view' = Rendered(state)
  /\ focused' = (focused /\ state.visible)
  /\ calls' = <<>>
  /\ UNCHANGED <<state, requests, latest>>
  /\ UNCHANGED vfsVars

----------------------------------------------------------------------------
(* The VFS facade: values *)

\* a path, as the texts between its '/' separators
FilePath == <<"osjs:", "docs", "a.txt">>

\* path.split('/').splice(-1)[0]
Filename(path) == path[Len(path)]

\* a path argument is a string or an object of the caller; an object has an
\* identity (ref) and own properties (fields)
StringPath(text) == [type |-> "string", value |-> text]
ObjectPath(fields) == [type |-> "object", ref |-> "caller", fields |-> fields]

PathArgs ==
  {StringPath(FilePath),
   ObjectPath([path |-> FilePath, mime |-> "text/plain"]),
   ObjectPath([path |-> FilePath, id |-> "7"])}

\* the options of a call: options.readfile is absent, a boolean or some other value
NoOptions == [readfile |-> Undefined]
DownloadOptions == {[readfile |-> v] : v \in {Undefined, "true", "false", "1"}}

\* typeof adapter.download
Adapters == {[download |-> t] : t \in {"function", "undefined"}}

\* what writefile is given to write
Data == {"ArrayBuffer", "Blob", "String"}

\* what an adapter can reject with
AdapterErrors == {"ENOENT", "EACCES"}

Methods ==
  {"readdir", "readfile", "writefile", "copy", "rename", "mkdir", "unlink",
   "exists", "stat", "url", "download"}

\* Object.assign(target, source): the own properties of source are written over
\* those of target, and target is returned
ObjectAssign(target, source) ==
  [target EXCEPT !.fields =
     [k \in DOMAIN source.fields \cup DOMAIN target.fields |->
        IF k \in DOMAIN source.fields THEN source.fields[k] ELSE target.fields[k]]]

\* an object literal evaluated inside the facade
Literal(fields) == [type |-> "object", ref |-> "literal", fields |-> fields]

\* the normalizer writing the default id into the object it is given
pathToObjectInPlace(path) ==
  LET given == IF path.type = "string" THEN Literal([path |-> path.value]) ELSE path
      assigned == ObjectAssign(given, Literal([id |-> Null]))
  IN [returned |-> assigned,
      argument |-> IF path.type = "string" THEN path ELSE assigned]

\* returned: the object the call returns; argument: the argument as the call
\* leaves it
pathToObject(path) ==
  [returned |-> ObjectAssign(Literal([id |-> Null]),
                             IF path.type = "string"
                             THEN Literal([path |-> path.value])
                             ELSE path),
   argument |-> path]

----------------------------------------------------------------------------
(* The VFS facade: the call each method makes to the adapter *)

\* adapter.method(...paths, extra, options); extra is the type readfile is to
\* return or the data writefile is to write, and undefined for the other methods
AdapterCall(method, paths, extra, options) ==
  [target |-> "adapter", method |-> method,
   paths |-> paths, extra |-> extra, options |-> options]

readdir(adapter, path, options) ==
  <<AdapterCall("readdir", <<pathToObject(path).returned>>, Undefined, options)>>

readfile(adapter, path, type, options) ==
  <<AdapterCall("readfile", <<pathToObject(path).returned>>, type, options)>>

writefile(adapter, path, data, options) ==
  LET binary == IF data \in {"ArrayBuffer", "Blob"} THEN data ELSE "Blob"
  IN <<AdapterCall("writefile", <<pathToObject(path).returned>>, binary, options)>>

copy(adapter, from, to, options) ==
  <<AdapterCall("copy", <<pathToObject(from).returned, pathToObject(to).returned>>,
                Undefined, options)>>

rename(adapter, from, to, options) ==
  <<AdapterCall("rename", <<pathToObject(from).returned, pathToObject(to).returned>>,
                Undefined, options)>>

mkdir(adapter, path, options) ==
  <<AdapterCall("mkdir", <<pathToObject(path).returned>>, Undefined, options)>>

unlink(adapter, path, options) ==
  <<AdapterCall("unlink", <<pathToObject(path).returned>>, Undefined, options)>>

exists(adapter, path, options) ==
  <<AdapterCall("exists", <<pathToObject(path).returned>>, Undefined, options)>>

stat(adapter, path, options) ==
  <<AdapterCall("stat", <<pathToObject(path).returned>>, Undefined, options)>>

url(adapter, path, options) ==
  <<AdapterCall("url", <<pathToObject(path).returned>>, Undefined, options)>>

\* download falling back whenever options.readfile is set to anything
downloadUnlessReadfileSet(adapter, path, options) ==
  IF adapter.download = "function" /\ options.readfile = Undefined
  THEN <<AdapterCall("download", <<pathToObject(path).returned>>, Undefined, options)>>
  ELSE readfile(adapter, path, "blob", NoOptions)

download(adapter, path, options) ==
  IF adapter.download = "function" /\ options.readfile # "true"
  THEN <<AdapterCall("download", <<pathToObject(path).returned>>, Undefined, options)>>
  ELSE readfile(adapter, path, "blob", NoOptions)

\* the arguments of a call of the facade: the paths, then what else the method takes
Invoke(method, adapter, paths, extra, options) ==
  CASE method = "readdir" -> readdir(adapter, paths[1], options)
    [] method = "readfile" -> readfile(adapter, paths[1], extra, options)
    [] method = "writefile" -> writefile(adapter, paths[1], extra, options)
    [] method = "copy" -> copy(adapter, paths[1], paths[2], options)
    [] method = "rename" -> rename(adapter, paths[1], paths[2], options)
    [] method = "mkdir" -> mkdir(adapter, paths[1], options)
    [] method = "unlink" -> unlink(adapter, paths[1], options)
    [] method = "exists" -> exists(adapter, paths[1], options)
    [] method = "stat" -> stat(adapter, paths[1], options)
    [] method = "url" -> url(adapter, paths[1], options)
    [] method = "download" -> download(adapter, paths[1], options)

\* the arguments as the synchronous part of the call leaves them
Leaves(paths) == [k \in DOMAIN paths |-> pathToObject(paths[k]).argument]

\* the .then callbacks a method chains on the adapter's promise
Continuations(method, invoked) ==
  CASE method = "readdir" -> <<"createFileIter", "transformReaddir">>
    [] method = "readfile" -> <<"transformArrayBuffer">>
    [] method = "stat" -> <<"createFileIter">>
    [] method = "download" /\ invoked[1].method = "readfile" ->
         <<"transformArrayBuffer", "save">>
    [] OTHER -> <<>>

\* the callbacks that normalize the path again when they run
NormalizesAgain(method, invoked) ==
  \/ method = "readdir"
  \/ method = "download" /\ invoked[1].method = "readfile"

\* no call made yet
NoCall ==
  [n |-> 0, method |-> "none", adapter |-> [download |-> "undefined"],
   passed |-> <<>>, args |-> <<>>, options |-> NoOptions, invoked |-> <<>>,
   promise |-> "none", error |-> Null, result |-> "none", reason |-> Null,
   value |-> <<>>]

----------------------------------------------------------------------------

Init ==
  /\ state = InitialState
  /\ view = Rendered(InitialState)
  /\ focused = FALSE
  /\ requests = <<>>
  /\ latest = 0
  /\ calls = <<>>
  /\ facade = NoCall
  /\ resources = <<>>

Next ==
  \/ KeydownRoot(KeyF3)
  \/ TrayClick
  \/ Focus
  \/ OnBlur
  \/ \E value \in Queries : OnInput(value)
  \/ \E keyCode \in {KeyUp, KeyDown, KeyEscape} : OnKeydown(keyCode)
  \/ OnKeypress(KeyEnter)
  \/ \E i \in 0 .. MaxResults - 1 : OnClick(i)
  \/ \E i \in 1 .. MaxSearches, results \in ResultSets : ThenCallback(i, results)
  \/ \E i \in 1 .. MaxSearches, error \in Errors : CatchCallback(i, error)
  \/ Render

Spec == Init /\ [][Next]_vars

----------------------------------------------------------------------------
(* The submission of a query: the overlay is shown and rendered, the input has
   the focus and holds a typed text; the keys that navigate and submit, and
   the responses, follow *)

SubmitInit ==
  /\ \E query \in TypedQueries :
       state = Merge(Merge(InitialState, toggle(<<TRUE>>, InitialState)),
                     setQuery(query))
  /\ view = Rendered(state)
  /\ focused = TRUE
  /\ requests = <<>>
  /\ latest = 0
  /\ calls = <<>>
  /\ facade = NoCall
  /\ resources = <<>>

SubmitNext ==
  \/ \E keyCode \in {KeyUp, KeyDown, KeyEscape} : OnKeydown(keyCode)
  \/ OnKeypress(KeyEnter)
  \/ \E i \in 1 .. MaxSearches, results \in ResultSets : ThenCallback(i, results)
  \/ \E i \in 1 .. MaxSearches, error \in Errors : CatchCallback(i, error)
  \/ Render

SubmitSpec == SubmitInit /\ [][SubmitNext]_vars

----------------------------------------------------------------------------
(* The VFS facade: a call, the settlement of the adapter's promise and the
   timer of the download fallback. The methods keep no state of their own, so
   one call is followed to its settlement before the next is made; the timers
   of earlier downloads run on beside it. *)

\* what a method takes besides paths and options: the type readfile returns,
\* the data writefile writes
Extra(method) ==
  CASE method = "readfile" -> {"string", "blob"}
    [] method = "writefile" -> Data
    [] OTHER -> {Undefined}

PathsOf(method) ==
  IF method \in {"copy", "rename"}
  THEN {<<from, to>> : from \in PathArgs, to \in PathArgs}
  ELSE {<<path>> : path \in PathArgs}

OptionsOf(method) == IF method = "download" THEN DownloadOptions ELSE {NoOptions}

\* what the body => {...} callback of the fallback does, in order
Save(n) ==
  <<[target |-> "URL.createObjectURL", of |-> n],
    [target |-> "document.createElement", of |-> n],
    [target |-> "document.body.appendChild", of |-> n],
    [target |-> "a.click", of |-> n],
    [target |-> "setTimeout", of |-> n]>>

\* what the timer callback does, in order
Release(n) ==
  <<[target |-> "URL.revokeObjectURL", of |-> n],
    [target |-> "a.remove", of |-> n]>>

\* the object URL and the anchor the callback leaves behind
Resource(n, path) ==
  [call |-> n, url |-> "created", anchor |-> "attached",
   download |-> Filename(pathToObject(path).returned.fields.path),
   clicks |-> 1, timer |-> "set", releases |-> 0]

\* method(adapter)(...paths, extra, options)
Call(method, adapter, paths, extra, options) ==
  /\ facade.n < MaxCalls
  /\ facade.promise # "pending"
  /\ facade' = [n |-> facade.n + 1, method |-> method, adapter |-> adapter,
                passed |-> paths, args |-> Leaves(paths), options |-> options,
                invoked |-> Invoke(method, adapter, paths, extra, options),
                promise |-> "pending", error |-> Null,
                result |-> "pending", reason |-> Null, value |-> <<>>]
  /\ calls' = facade'.invoked
  /\ UNCHANGED resources
  /\ UNCHANGED searchVars

\* a rejection passed on as a new error of the facade
AdapterRejectsWrapped(error) ==
  /\ facade.promise = "pending"
  /\ facade' = [facade EXCEPT !.promise = "rejected", !.error = error,
                              !.result = "rejected", !.reason = "EIO"]
  /\ calls' = <<>>
  /\ UNCHANGED resources
  /\ UNCHANGED searchVars

\* the promise of the adapter is rejected: no .then callback runs and the
\* promise the facade returned is rejected with the same error
AdapterRejects(error) ==
  /\ facade.promise = "pending"
  /\ facade' = [facade EXCEPT !.promise = "rejected", !.error = error,
                              !.result = "rejected", !.reason = error]
  /\ calls' = <<>>
  /\ UNCHANGED resources
  /\ UNCHANGED searchVars

\* the fallback releasing what it created before the click
AdapterFulfilsReleasesFirst ==
  /\ facade.promise = "pending"
  /\ LET callbacks == Continuations(facade.method, facade.invoked)
         saves == Len(callbacks) > 0 /\ callbacks[Len(callbacks)] = "save"
     IN /\ facade' = [facade EXCEPT
                        !.promise = "fulfilled", !.result = "fulfilled",
                        !.value = callbacks,
                        !.args = IF NormalizesAgain(facade.method, facade.invoked)
                                 THEN Leaves(@) ELSE @]
        /\ calls' = IF saves
                    THEN SubSeq(Save(facade.n), 1, 3) \o Release(facade.n)
                         \o SubSeq(Save(facade.n), 4, 4)
                    ELSE <<>>
        /\ resources' = IF saves
                        THEN Append(resources,
                               [Resource(facade.n, facade.passed[1]) EXCEPT
                                  !.url = "revoked", !.anchor = "removed",
                                  !.timer = "none", !.releases = 1])
                        ELSE resources
  /\ UNCHANGED searchVars

\* the promise of the adapter is fulfilled: the .then callbacks of the method
\* run and the promise the facade returned is fulfilled
AdapterFulfils ==
  /\ facade.promise = "pending"
  /\ LET callbacks == Continuations(facade.method, facade.invoked)
         saves == Len(callbacks) > 0 /\ callbacks[Len(callbacks)] = "save"
     IN /\ facade' = [facade EXCEPT
                        !.promise = "fulfilled", !.result = "fulfilled",
                        !.value = callbacks,
                        !.args = IF NormalizesAgain(facade.method, facade.invoked)
                                 THEN Leaves(@) ELSE @]
        /\ calls' = IF saves THEN Save(facade.n) ELSE <<>>
        /\ resources' = IF saves
                        THEN Append(resources, Resource(facade.n, facade.passed[1]))
                        ELSE resources
  /\ UNCHANGED searchVars

\* setTimeout(() => {...}, 1) of the i-th fallback
TimerFires(i) ==
  /\ i \in DOMAIN resources
  /\ resources[i].timer = "set"
  /\ resources' = [resources EXCEPT ![i].url = "revoked", ![i].anchor = "removed",
                                    ![i].timer = "fired",
                                    ![i].releases = @ + 1]
  /\ calls' = Release(resources[i].call)
  /\ UNCHANGED facade
  /\ UNCHANGED searchVars

VfsNext ==
  \/ \E method \in Methods :
       \E adapter \in Adapters, paths \in PathsOf(method),
          extra \in Extra(method), options \in OptionsOf(method) :
         Call(method, adapter, paths, extra, options)
  \/ AdapterFulfils
  \/ \E error \in AdapterErrors : AdapterRejects(error)
  \/ \E i \in 1 .. MaxCalls : TimerFires(i)

\* a timer that was set fires
VfsSpec ==
  /\ Init
  /\ [][VfsNext]_vars
  /\ \A i \in 1 .. MaxCalls : WF_vars(TimerFires(i))

----------------------------------------------------------------------------
(* Properties *)

\* C1: in every reachable state index is an integer with
\* -1 <= index <= results.length - 1 (never NaN, also after setNextIndex or
\* setPreviousIndex on empty results).
C1_IndexInRange ==
  /\ state.index # NaN
  /\ state.index >= -1
  /\ state.index <= Len(state.results) - 1

\* C2: error and status are mutually exclusive: in no reachable state is error
\* non-null while status is defined.
C2_ErrorXorStatus == ~(state.error # Null /\ state.status # Undefined)

\* C3: when a search issued after an error was set, in the same overlay session,
\* resolves, the message displayed is the result count of that search and no
\* longer the error.
C3_RequeryShowsCount ==
  [][\A i \in 1 .. MaxSearches, results \in ResultSets :
       (ThenCallback(i, results) /\ requests[i].session = "retry")
       => Message(state') = setResults(results).status]_vars

CountMessage(n) == "Showing " \o ToString(n) \o " results"

Defaults(visible) ==
  [query |-> <<>>,
   index |-> -1,
   status |-> "undefined",
   error |-> "null",
   visible |-> visible,
   results |-> <<>>]

\* C4: searches are not coordinated: the continuation of every pending call
\* can run whatever newer calls there are and whether they have settled, and
\* what is displayed is the outcome of the call that settled last, not of the
\* call issued last.
C4_Uncoordinated ==
  /\ \A i \in DOMAIN requests :
       requests[i].phase = "pending" =>
         /\ \A results \in ResultSets : ENABLED ThenCallback(i, results)
         /\ \A error \in Errors : ENABLED CatchCallback(i, error)
  /\ latest # 0 =>
       /\ requests[latest].phase = "fulfilled" =>
            state.status = CountMessage(Len(state.results))
       /\ requests[latest].phase = "rejected" =>
            state.error # Null /\ state.status = Undefined

\* both calls have settled and the older one settled last: its results are shown
C4_OlderShown ==
  /\ Len(requests) = 2
  /\ requests[1].phase = "fulfilled"
  /\ requests[2].phase = "fulfilled"
  /\ latest = 1
  /\ state.results # <<>>
  /\ state.status = CountMessage(Len(state.results))

\* C5: a search calls vfs.search once, rooted at osjs:/ with the pattern given,
\* and leaves the state as it is; when the promise of a call settles exactly one
\* transition is applied for it, setResults with the results if fulfilled and
\* setError with the error if rejected, and a settled call applies no more.
C5_SearchOnce ==
  [][/\ (~JsGe(view.index, 0) /\ OnKeypress(KeyEnter)) =>
          Len(requests') = Len(requests) + 1
     /\ (\E k \in DOMAIN calls' : calls'[k].target = "vfs.search") =>
          Len(requests') = Len(requests) + 1
     /\ Len(requests') # Len(requests) =>
          /\ calls' = <<[target |-> "vfs.search", path |-> "osjs:/",
                         arg |-> Pattern(view.query)]>>
          /\ state' = state
          /\ Len(requests') = Len(requests) + 1
          /\ requests'[Len(requests')].phase = "pending"
          /\ \A i \in DOMAIN requests : requests'[i] = requests[i]
     /\ \A i \in DOMAIN requests :
          requests'[i].phase # requests[i].phase =>
            /\ requests[i].phase = "pending"
            /\ \A j \in DOMAIN requests \ {i} : requests'[j].phase = requests[j].phase
            /\ \/ /\ requests'[i].phase = "fulfilled"
                  /\ \E results \in ResultSets :
                       /\ state'.results = results
                       /\ ThenCallback(i, results)
                       /\ state'.status = CountMessage(Len(results))
                  /\ state'.error = state.error
               \/ /\ requests'[i].phase = "rejected"
                  /\ \E error \in Errors :
                       /\ state'.error = error
                       /\ CatchCallback(i, error)
                  /\ state'.status = Undefined
                  /\ state'.results = state.results
    ]_vars

\* one call was fulfilled and one rejected, each applied once
C5_BothOutcomes ==
  /\ Len(requests) = 2
  /\ requests[1].phase = "rejected"
  /\ requests[2].phase = "fulfilled"
  /\ latest = 1
  /\ state.error = "EIO"
  /\ state.status = Undefined
  /\ state.results # <<>>

\* C6: toggle(v) from any state gives query '', results [], index -1, status
\* undefined, error null and visible v, or the negation of visible when v is
\* omitted; show() (F3, tray), hide() (Escape with no selection) and the blur of
\* the input all go through this reset.
C6_ToggleResets ==
  /\ [](\A args \in {<<>>, <<TRUE>>, <<FALSE>>} :
          Merge(state, toggle(args, state)) =
            Defaults(IF args = <<>> THEN ~state.visible ELSE args[1]))
  /\ [][/\ (KeydownRoot(KeyF3) \/ TrayClick) => state' = Defaults(TRUE)
        /\ OnBlur => state' = Defaults(FALSE)
        /\ (OnKeydown(KeyEscape) /\ JsEq(view.index, -1)) => state' = Defaults(FALSE)
       ]_vars

\* the reset has just been applied to a state with a query, results, a
\* selection and a message: the overlay last rendered still shows them
C6_ResetApplied ==
  /\ state = Defaults(FALSE)
  /\ view.visible
  /\ view.query # <<>>
  /\ view.results # <<>>
  /\ view.index >= 0

\* C7: toggle(false) followed by toggle() gives the state toggle(true) gives.
C7_ToggleFalseThenFlip ==
  LET hidden == Merge(state, toggle(<<FALSE>>, state))
  IN Merge(hidden, toggle(<<>>, hidden)) = Merge(state, toggle(<<TRUE>>, state))

\* a state with a query, results and a selection, on which the two toggles give
\* the visible defaults
C7_FlipShows ==
  /\ state.query # <<>>
  /\ state.results # <<>>
  /\ state.index >= 0
  /\ LET hidden == Merge(state, toggle(<<FALSE>>, state))
     IN Merge(hidden, toggle(<<>>, hidden)) = Defaults(TRUE)

\* C8: with N > 0 results setNextIndex takes index to (index + 1) mod N, so
\* from -1 the indices run 0, 1, ..., N-1, 0, ... and never return to -1.
C8_NextCycles ==
  [][(OnKeydown(KeyDown) /\ Len(state.results) > 0) =>
       /\ state.index \in -1 .. Len(state.results) - 1
       /\ state'.index = (state.index + 1) % Len(state.results)
       /\ state'.index \in 0 .. Len(state.results) - 1
    ]_vars

\* the last of at least two results is selected and setNextIndex wraps to 0
C8_WrapsToFirst ==
  /\ Len(state.results) >= 2
  /\ state.index = Len(state.results) - 1
  /\ focused
  /\ Merge(state, setNextIndex(state)).index = 0

\* C9: with N > 0 results setPreviousIndex gives N-1 from index 0 and from
\* index -1, and index - 1 from an index in 1..N-1.
C9_PreviousWraps ==
  [][(OnKeydown(KeyUp) /\ Len(state.results) > 0) =>
       /\ state.index \in -1 .. Len(state.results) - 1
       /\ state'.index = IF state.index \in {-1, 0}
                         THEN Len(state.results) - 1
                         ELSE state.index - 1
    ]_vars

\* the first of at least two results is selected and setPreviousIndex wraps
\* to the last
C9_WrapsToLast ==
  /\ Len(state.results) >= 2
  /\ state.index = 0
  /\ focused
  /\ Merge(state, setPreviousIndex(state)).index = Len(state.results) - 1

\* C10: setResults(rs) replaces results by rs, sets index to -1 and status to
\* 'Showing <rs.length> results', whatever the index was, and leaves query and
\* visible as they are.
C10_SetResults ==
  [][\A i \in DOMAIN requests :
       (requests[i].phase = "pending" /\ requests'[i].phase = "fulfilled") =>
         /\ \E results \in ResultSets :
              /\ state'.results = results
              /\ ThenCallback(i, results)
              /\ state'.status = CountMessage(Len(results))
         /\ state'.index = -1
         /\ state'.query = state.query
         /\ state'.visible = state.visible
    ]_vars

\* results have just replaced a rendered list that had a selection
C10_ResultsReplaced ==
  /\ latest # 0
  /\ requests[latest].phase = "fulfilled"
  /\ state.results # view.results
  /\ Len(state.results) = 2
  /\ state.status = "Showing 2 results"
  /\ state.index = -1
  /\ view.index >= 0
  /\ state.query # <<>>
  /\ state.visible

\* C11: setError(e) sets error to e, status to undefined and index to -1,
\* whatever they were, and leaves query, visible and results as they are.
C11_SetError ==
  [][\A i \in DOMAIN requests :
       (requests[i].phase = "pending" /\ requests'[i].phase = "rejected") =>
         /\ \E error \in Errors :
              /\ state'.error = error
              /\ CatchCallback(i, error)
         /\ state'.status = "undefined"
         /\ state'.index = -1
         /\ state'.query = state.query
         /\ state'.visible = state.visible
         /\ state'.results = state.results
    ]_vars

\* a search has just been rejected over a rendered list that had a count message
\* and a selection: the list is kept, the selection and the count are gone
C11_ErrorOverResults ==
  /\ latest # 0
  /\ requests[latest].phase = "rejected"
  /\ state.error = "EIO"
  /\ state.status = "undefined"
  /\ state.index = -1
  /\ view.index >= 0
  /\ state.results = view.results
  /\ Len(state.results) = 2
  /\ state.query # <<>>
  /\ state.visible

\* C12: open(index) asks the Desktop Shell once to open results[index] of the
\* current state, and only if there is such an entry, then applies
\* toggle(false): the overlay is hidden and at its defaults; Enter on a rendered
\* selection (index >= 0) dispatches open(index) and issues no search.
C12_Open ==
  [][/\ (OnKeypress(KeyEnter) /\ view.index # NaN /\ view.index >= 0) =>
          /\ calls' = IF view.index < Len(state.results)
                      THEN <<[target |-> "core.open",
                              path |-> state.results[view.index + 1].path,
                              arg |-> state.results[view.index + 1]]>>
                      ELSE <<>>
          /\ state' = Defaults(FALSE)
          /\ requests' = Expire(requests)
     /\ \A i \in 0 .. MaxResults - 1 :
          OnClick(i) =>
            /\ calls' = IF i < Len(state.results)
                        THEN <<[target |-> "core.open",
                                path |-> state.results[i + 1].path,
                                arg |-> state.results[i + 1]]>>
                        ELSE <<>>
            /\ state' = Defaults(FALSE)
            /\ requests' = Expire(requests)
     /\ (\E k \in DOMAIN calls' : calls'[k].target = "core.open") =>
          /\ Len(calls') = 1
          /\ \E j \in DOMAIN state.results : calls'[1].arg = state.results[j]
          /\ state' = Defaults(FALSE)
          /\ Len(requests') = Len(requests)
    ]_vars

\* Enter on the rendered selection has just asked for that entry to be opened
\* and reset the state; the input still has the focus
C12_Opened ==
  /\ Len(calls) = 1
  /\ calls[1].target = "core.open"
  /\ focused
  /\ view.visible
  /\ view.index >= 0
  /\ view.query # <<>>
  /\ calls[1].arg = view.results[view.index + 1]
  /\ state = Defaults(FALSE)

\* the query with a wildcard at its end and at its start, none doubled: '*' is
\* appended unless the query ends with one, then '*' is prepended unless the
\* text starts with one (the empty query gives '*', which is both)
EnsureStars(q) ==
  LET ended == IF Len(q) > 0 /\ q[Len(q)] = "*" THEN q ELSE q \o <<"*">>
  IN IF ended[1] = "*" THEN ended ELSE <<"*">> \o ended

\* C13: Enter with no selection rendered (index === -1) issues one search and
\* no open, for the query with a leading and a trailing '*' ensured: 'a' gives
\* '*a*', and '*a', 'a*', '**' and '*' are not given a second wildcard.
C13_EnterSearches ==
  [][(OnKeypress(KeyEnter) /\ view.index = -1) =>
       /\ calls' = <<[target |-> "vfs.search", path |-> "osjs:/",
                      arg |-> EnsureStars(view.query)]>>
       /\ calls'[1].arg[1] = "*"
       /\ calls'[1].arg[Len(calls'[1].arg)] = "*"
       /\ Len(calls'[1].arg) \in {Len(view.query), Len(view.query) + 1,
                                  Len(view.query) + 2}
       /\ Len(requests') = Len(requests) + 1
       /\ state' = state
    ]_vars

\* a query that ends with a wildcard has just been submitted: one is prepended
\* and none appended
C13_TrailingKept ==
  /\ view.query = <<"a", "*">>
  /\ view.index = -1
  /\ Len(requests) = 1
  /\ calls = <<[target |-> "vfs.search", path |-> "osjs:/",
                arg |-> <<"*", "a", "*">>]>>

\* C14: Escape is two-stage: on a rendered selection (index >= 0) it only
\* clears the selection, leaving visible, query and results as they are, and it
\* hides the overlay only when no selection was rendered (index === -1).
C14_TwoStageEscape ==
  [][OnKeydown(KeyEscape) =>
       /\ (view.index # NaN /\ view.index >= 0) =>
            /\ state'.index = -1
            /\ state'.visible = state.visible
            /\ state'.query = state.query
            /\ state'.results = state.results
            /\ state'.status = state.status
            /\ state'.error = state.error
            /\ requests' = requests
       /\ view.index = -1 => state' = Defaults(FALSE)
       /\ (state.visible /\ ~state'.visible) => view.index = -1
    ]_vars

\* the first Escape has cleared the selection of the one list received: the
\* overlay, the query and the list are still there, the selection is still
\* rendered
C14_SelectionCleared ==
  /\ Len(requests) = 1
  /\ requests[1].phase = "fulfilled"
  /\ latest = 1
  /\ focused
  /\ state.visible
  /\ state.index = -1
  /\ view.index >= 0
  /\ state.results = view.results
  /\ state.query # <<>>
  /\ state.query = view.query

\* C15: the global hotkey (F3) toggles the overlay: pressed while it is hidden
\* it shows it, pressed while it is visible it hides it.
C15_HotkeyToggles ==
  [][KeydownRoot(KeyF3) =>
       /\ ~state.visible => state'.visible
       /\ state.visible => ~state'.visible
    ]_vars

\* C16: every facade method invokes its adapter method once per call and never
\* again, and a rejection of the adapter is the rejection of the facade, with
\* the same error; a download that falls back to adapter.readfile and is
\* rejected creates no object URL and no anchor.
C16_RejectionUnchanged ==
  /\ [](facade.n > 0 =>
          /\ Len(facade.invoked) = 1
          /\ facade.invoked[1].target = "adapter"
          /\ facade.invoked[1].method \in
               {facade.method} \cup
               (IF facade.method = "download" THEN {"readfile"} ELSE {})
          /\ facade.promise = "rejected" =>
               /\ facade.error \in AdapterErrors
               /\ facade.result = "rejected"
               /\ facade.reason = facade.error
               /\ \A i \in DOMAIN resources : resources[i].call # facade.n)
  /\ [][/\ facade'.n = facade.n => facade'.invoked = facade.invoked
        /\ (\E k \in DOMAIN calls' : calls'[k].target = "adapter") =>
             /\ facade'.n = facade.n + 1
             /\ calls' = facade'.invoked
        /\ (facade.promise = "pending" /\ facade'.promise = "rejected") =>
             /\ calls' = <<>>
             /\ resources' = resources
       ]_vars

\* a download on an adapter without download has read the file and been
\* rejected, after an earlier download had saved: nothing was created for it
C16_FallbackRejected ==
  /\ facade.n = 2
  /\ facade.method = "download"
  /\ facade.adapter.download = "undefined"
  /\ facade.invoked[1].method = "readfile"
  /\ facade.promise = "rejected"
  /\ facade.reason = "EACCES"
  /\ Len(resources) = 1
  /\ resources[1].call = 1
  /\ calls = <<>>

\* C17: download calls adapter.download, and never adapter.readfile, exactly
\* when adapter.download is a function and options.readfile is not true;
\* otherwise it never calls adapter.download and calls adapter.readfile with type
\* 'blob', and on the blob it creates the object URL and the anchor and clicks
\* the anchor.
C17_DownloadDelegates ==
  /\ [](facade.method = "download" =>
          LET native == /\ facade.adapter.download = "function"
                        /\ facade.options.readfile # "true"
              created == {i \in DOMAIN resources : resources[i].call = facade.n}
          IN /\ Len(facade.invoked) = 1
             /\ native <=> facade.invoked[1].method = "download"
             /\ ~native <=> facade.invoked[1].method = "readfile"
             /\ native => created = {}
             /\ ~native =>
                  /\ facade.invoked[1].extra = "blob"
                  /\ facade.promise = "fulfilled" <=> Cardinality(created) = 1
                  /\ \A i \in created :
                       resources[i].clicks = 1 /\ resources[i].download = "a.txt")
  /\ [][(/\ facade.method = "download"
         /\ facade.invoked[1].method = "readfile"
         /\ facade.promise = "pending"
         /\ facade'.promise = "fulfilled") =>
           /\ [k \in DOMAIN calls' |-> calls'[k].target] =
                <<"URL.createObjectURL", "document.createElement",
                  "document.body.appendChild", "a.click", "setTimeout">>
           /\ Len(resources') = Len(resources) + 1
       ]_vars

\* a first download was forced through the read and has saved; a second, with
\* options.readfile false on an adapter that has download, was delegated
C17_BothWays ==
  /\ facade.n = 2
  /\ facade.method = "download"
  /\ facade.adapter.download = "function"
  /\ facade.options.readfile = "false"
  /\ facade.invoked[1].method = "download"
  /\ facade.promise = "fulfilled"
  /\ Len(resources) = 1
  /\ resources[1].call = 1
  /\ resources[1].clicks = 1

\* C18: the path normalizer gives {id: null, path: p} for a string p and, for
\* an object o, a new object with the fields of o and with id null when o has
\* no id (the id of o stands when it has one); the result always has a path,
\* the one given, and an id field, and the object given is neither changed nor
\* the object returned.
C18_PathNormalized ==
  \A k \in DOMAIN facade.passed :
    LET given == facade.passed[k]
        got == facade.invoked[1].paths[k]
    IN /\ got.type = "object"
       /\ {"id", "path"} \subseteq DOMAIN got.fields
       /\ got.fields.path = <<"osjs:", "docs", "a.txt">>
       /\ given.type = "string" =>
            /\ got.fields = [id |-> "null", path |-> given.value]
            /\ facade.args[k] = given
       /\ given.type = "object" =>
            /\ DOMAIN got.fields = DOMAIN given.fields \cup {"id"}
            /\ \A f \in DOMAIN given.fields : got.fields[f] = given.fields[f]
            /\ "id" \notin DOMAIN given.fields => got.fields.id = "null"
            /\ got.ref # given.ref
            /\ facade.args[k].ref = given.ref
            /\ facade.args[k].fields = given.fields

\* copy was called with a string and with an object that has an id: the adapter
\* was given {id: null, path} for the first and a new object with that id for
\* the second
C18_BothKinds ==
  /\ facade.method = "copy"
  /\ facade.passed[1].type = "string"
  /\ facade.passed[2].type = "object"
  /\ facade.passed[2].fields = [path |-> <<"osjs:", "docs", "a.txt">>, id |-> "7"]
  /\ facade.invoked[1].paths[1].fields = [id |-> "null", path |-> <<"osjs:", "docs", "a.txt">>]
  /\ facade.invoked[1].paths[2].fields = [path |-> <<"osjs:", "docs", "a.txt">>, id |-> "7"]
  /\ facade.invoked[1].paths[2].ref = "literal"
  /\ facade.args[2] = facade.passed[2]

\* C19: setQuery changes only query, and resetIndex, setNextIndex and
\* setPreviousIndex change only index: visible, results, status and error, and
\* index or query respectively, are left as they are.
C19_OnlyOneField ==
  [][/\ \A value \in Queries :
          OnInput(value) => state' = [state EXCEPT !.query = value]
     /\ (OnKeydown(KeyUp) \/ OnKeydown(KeyDown)) =>
          state' = [state EXCEPT !.index = state'.index]
     /\ (OnKeydown(KeyEscape) /\ view.index # -1) =>
          state' = [state EXCEPT !.index = -1]
    ]_vars

\* a text has just been typed over a rendered list with a selection and a
\* count: only the query differs from what was rendered
C19_TypedOverSelection ==
  /\ focused
  /\ state.query # view.query
  /\ state.index = view.index
  /\ state.index = 1
  /\ state.results = view.results
  /\ state.status = "Showing 2 results"
  /\ state.error = "null"
  /\ state.visible

\* C20: a download that falls back creates the object URL, attaches the anchor
\* and clicks it, in that order, and only later, in a timer the returned promise
\* does not wait for, revokes the URL and removes the anchor; a timer that is set
\* fires, so every URL and anchor created is released, once; the promise may be
\* fulfilled before that.
C20_ReleasedOnce ==
  /\ [](\A i \in DOMAIN resources :
          /\ resources[i].clicks = 1
          /\ resources[i].releases \in {0, 1}
          /\ resources[i].releases = 0 <=>
               (resources[i].url = "created" /\ resources[i].anchor = "attached")
          /\ resources[i].releases = 1 <=>
               (resources[i].url = "revoked" /\ resources[i].anchor = "removed"))
  /\ [][/\ Len(resources') # Len(resources) =>
             /\ Len(resources') = Len(resources) + 1
             /\ [k \in DOMAIN calls' |-> calls'[k].target] =
                  <<"URL.createObjectURL", "document.createElement",
                    "document.body.appendChild", "a.click", "setTimeout">>
             /\ resources'[Len(resources')].releases = 0
             /\ resources'[Len(resources')].call = facade.n
             /\ facade.result = "pending"
             /\ facade'.result = "fulfilled"
        /\ \A i \in DOMAIN resources :
             resources'[i] # resources[i] =>
               /\ resources[i].releases = 0
               /\ resources'[i].releases = 1
               /\ calls' = <<[target |-> "URL.revokeObjectURL", of |-> resources[i].call],
                             [target |-> "a.remove", of |-> resources[i].call]>>
               /\ facade' = facade
        /\ (\E k \in DOMAIN calls' :
              calls'[k].target \in {"URL.revokeObjectURL", "a.remove"}) =>
             \E i \in DOMAIN resources : resources'[i] # resources[i]
       ]_vars
  /\ \A i \in 1 .. MaxCalls :
       (i \in DOMAIN resources) ~> (i \in DOMAIN resources /\ resources[i].releases = 1)

\* the promise of a second download is fulfilled while its URL and anchor are
\* still there; those of the first have been released
C20_FulfilledBeforeRelease ==
  /\ Len(resources) = 2
  /\ resources[1].releases = 1
  /\ resources[2].releases = 0
  /\ resources[2].call = 2
  /\ facade.n = 2
  /\ facade.method = "download"
  /\ facade.result = "fulfilled"

\* C21: whenever the overlay is hidden the state is at its defaults (query '',
\* results [], index -1, status undefined, error null), also when a search
\* issued before it was hidden settles afterwards: the response to a search
\* issued in a session that a toggle has ended changes nothing of the state.
C21_HiddenStaysDefault ==
  [][\A i \in DOMAIN requests :
       (/\ requests[i].phase = "pending"
        /\ requests[i].session = "expired"
        /\ requests'[i].phase # "pending") =>
         /\ state'.results = state.results
         /\ state'.status = state.status
         /\ state'.error = state.error
         /\ ~state'.visible => state' = Defaults(FALSE)
    ]_vars

\* C22: a click on the rendered result i asks the Desktop Shell to open the
\* File Record rendered at position i, whatever happened between the render
\* and the click (the blur of the input, the settling of a search).
C22_ClickOpensRendered ==
  [][\A i \in 0 .. MaxResults - 1 :
       OnClick(i) =>
         calls' = <<[target |-> "core.open",
                     path |-> view.results[i + 1].path,
                     arg |-> view.results[i + 1]]>>
    ]_vars

\* C23: on N > 0 results and an index in 0..N-1, setNextIndex then
\* setPreviousIndex, and setPreviousIndex then setNextIndex, give the index
\* back; from index -1 neither does.
C23_NextPreviousInverse ==
  LET next == Merge(state, setNextIndex(state))
      previous == Merge(state, setPreviousIndex(state))
      nextPrevious == Merge(next, setPreviousIndex(next))
      previousNext == Merge(previous, setNextIndex(previous))
  IN Len(state.results) > 0 =>
       /\ state.index \in 0 .. Len(state.results) - 1 =>
            /\ nextPrevious = state
            /\ previousNext = state
       /\ state.index = -1 =>
            /\ nextPrevious.index = Len(state.results) - 1
            /\ previousNext.index = 0

\* the last of two results is selected: setNextIndex wraps to the first and
\* setPreviousIndex wraps back to the last
C23_RoundTripOverWrap ==
  /\ Len(state.results) = 2
  /\ state.index = 1
  /\ Merge(state, setNextIndex(state)).index = 0
  /\ LET next == Merge(state, setNextIndex(state))
     IN Merge(next, setPreviousIndex(next)).index = 1

====
